---- MODULE Spec2Model ----
(***************************************************************************)
(* Verification model of the jetzy conversation pipeline:                  *)
(*   - ChatGPTClient.generate_response        (src/api/chatgpt.py)         *)
(*   - extract_entities                       (src/utils/context.py)       *)
(*   - TravelHandler.process_travel_intent    (src/travel_handler.py)      *)
(*   - EnhancedConversationService            (src/enhanced_conversation.py)*)
(*                                                                         *)
(* Texts are finite sequences of tokens.  Every await of the code is a     *)
(* step boundary; the code between two awaits is one atomic action.        *)
(***************************************************************************)
EXTENDS Integers, Sequences, FiniteSets, TLC

VARIABLES
    call,      \* the generate_response invocation made by a direct caller
    ex,        \* the extract_entities invocation made by a direct caller
    settings,  \* config.Settings, read once at import
    ctx,       \* the UserContext shared by the turns of one user
    frame,     \* locals of the process_message invocation in progress
    served,    \* number of process_message invocations started so far
    lp,        \* a LinkProcessor call sequence on one text
    down,      \* the service's clients and the progress of its shutdown
    search,    \* one search request, dispatched or made at a search endpoint
    svc,       \* a ConversationService.process_message invocation and its context
    tasks      \* locals of the process_message invocations running concurrently

vars == <<call, ex, settings, ctx, frame, served, lp, down, search, svc, tasks>>

(***************************************************************************)
(* Bounds                                                                  *)
(***************************************************************************)
MaxTurns == 2          \* process_message invocations per behaviour
MaxContentLen == 3     \* tokens in a model reply handed to extract_entities
MaxMarkerLen == 6      \* tokens in a text made of link-marker pieces
MaxScanLen == 5        \* tokens in a text that also holds places and markers
MaxPurposeLen == 2     \* tokens in the purpose of a generic marker
MaxModes == 2          \* names in a transport_modes list

None == "None"         \* Python None / an absent value

(***************************************************************************)
(* ModelGateway: src/api/chatgpt.py                                        *)
(***************************************************************************)
DefaultModel == "gpt-3.5-turbo"            \* Settings.default_model
FallbackModel == "gpt-3.5-turbo-0125"      \* fallback_model
FinalModel == "gpt-3.5-turbo"              \* literal of the final attempt

\* model identities a deployment may configure or a caller may name
Models == {"gpt-3.5-turbo", "gpt-3.5-turbo-0125", "gpt-4"}

\* what the network does to one POST /chat/completions
NetKinds == {"ok", "status", "timeout", "connect"}

\* type(e).__name__ of the exception _make_api_request re-raises
ErrorTypeOf(kind) ==
    CASE kind = "status"  -> "HTTPStatusError"
      [] kind = "timeout" -> "ReadTimeout"
      [] kind = "connect" -> "ConnectError"

NoErr == [type |-> None, attempt |-> 0]
NoBody == [shape |-> None, content |-> <<>>, members |-> <<>>]

\* ChatGPTClient._make_api_request(messages, model, **kwargs) as called from
\* generate_response: kwargs still holds "model" when the caller named one, so
\* the call binds model twice and raises TypeError before any request is sent.
\* Otherwise the POST is made; any failure of it is re-raised.
MakeApiRequest(model, kwModel, net, n) ==
    IF kwModel # None
    THEN [model |-> model, sent |-> FALSE, ok |-> FALSE, body |-> NoBody,
          err |-> [type |-> "TypeError", attempt |-> n]]
    ELSE IF net.kind = "ok"
    THEN [model |-> model, sent |-> TRUE, ok |-> TRUE, body |-> net.body,
          err |-> NoErr]
    ELSE [model |-> model, sent |-> TRUE, ok |-> FALSE, body |-> NoBody,
          err |-> [type |-> ErrorTypeOf(net.kind), attempt |-> n]]

\* model = kwargs.get("model", settings.default_model)
PrimaryModel(kwModel, defaultModel) ==
    IF kwModel # None THEN kwModel ELSE defaultModel

IdleCall == [pc |-> "idle", kw |-> None, model |-> None, log |-> <<>>,
             response |-> NoBody, raised |-> NoErr]

\* entry of generate_response
GwBegin(kwModel, defaultModel) ==
    [pc |-> "primary", kw |-> kwModel,
     model |-> PrimaryModel(kwModel, defaultModel), log |-> <<>>,
     response |-> NoBody, raised |-> NoErr]

\* the model identity the pending attempt of g is made against
GwTarget(g) ==
    CASE g.pc = "primary"  -> g.model
      [] g.pc = "fallback" -> FallbackModel
      [] g.pc = "final"    -> FinalModel

\* after the primary attempt failed: the first fallback is tried only when it
\* differs from the primary model, otherwise the final attempt follows
AfterPrimaryFailure(model) ==
    IF model # FallbackModel THEN "fallback" ELSE "final"

\* variant: "raise final_e", the error of the last attempt
RaisedErrorLast(log) == log[Len(log)].err

\* the exception generate_response raises once the final attempt failed:
\* "raise e", e being the exception of the primary attempt
RaisedError(log) == log[1].err

\* variant: the chain ends at the first fallback
GwStepNoFinal(g, net) ==
    LET a == MakeApiRequest(GwTarget(g), g.kw, net, Len(g.log) + 1)
        log2 == Append(g.log, a)
    IN  IF a.ok
        THEN [g EXCEPT !.pc = "returned", !.log = log2, !.response = a.body]
        ELSE CASE g.pc = "primary" ->
                    [g EXCEPT !.pc = AfterPrimaryFailure(g.model), !.log = log2]
               [] g.pc \in {"fallback", "final"} ->
                    [g EXCEPT !.pc = "raised", !.log = log2,
                              !.raised = RaisedError(log2)]

\* variant: the chain is walked to its end whatever the attempts answer
GwStepTriesAll(g, net) ==
    LET a == MakeApiRequest(GwTarget(g), g.kw, net, Len(g.log) + 1)
        log2 == Append(g.log, a)
    IN  CASE g.pc = "primary" ->
                [g EXCEPT !.pc = AfterPrimaryFailure(g.model), !.log = log2,
                          !.response = a.body]
          [] g.pc = "fallback" ->
                [g EXCEPT !.pc = "final", !.log = log2, !.response = a.body]
          [] g.pc = "final" ->
                IF a.ok
                THEN [g EXCEPT !.pc = "returned", !.log = log2,
                               !.response = a.body]
                ELSE [g EXCEPT !.pc = "raised", !.log = log2,
                               !.raised = RaisedError(log2)]

\* one attempt of generate_response: the pending request is made, and the
\* call either returns its body or moves on along the chain
GwStep(g, net) ==
    LET a == MakeApiRequest(GwTarget(g), g.kw, net, Len(g.log) + 1)
        log2 == Append(g.log, a)
    IN  IF a.ok
        THEN [g EXCEPT !.pc = "returned", !.log = log2, !.response = a.body]
        ELSE CASE g.pc = "primary" ->
                    [g EXCEPT !.pc = AfterPrimaryFailure(g.model), !.log = log2]
               [] g.pc = "fallback" ->
                    [g EXCEPT !.pc = "final", !.log = log2]
               [] g.pc = "final" ->
                    [g EXCEPT !.pc = "raised", !.log = log2,
                              !.raised = RaisedError(log2)]

GwRunning(g) == g.pc \in {"primary", "fallback", "final"}

(***************************************************************************)
(* Entity maps (Python dicts) and the model's reply text                   *)
(***************************************************************************)
EmptyMap == [k \in {} |-> None]

\* dict.get(key, default)
Get(d, key, default) == IF key \in DOMAIN d THEN d[key] ELSE default

\* Python truthiness of an optional string
Falsy(v) == v = None \/ v = ""

KnownIntents == {"flight", "hotel", "restaurant", "attraction", "transport",
                 "seasonal_advice", "general"}
\* intent strings a model may return: the enumerated ones and two others
IntentValues == KnownIntents \cup {"cruise", "Flight"}
SlotKeys == {"origin", "destination", "location"}
SlotValue(k) ==
    CASE k = "origin" -> "NYC" [] k = "destination" -> "Paris"
      [] k = "location" -> "Rome"

\* the dict a JSON object with intent i (None: no intent member), the slots
\* of S holding a value and the slots of E holding "" parses to
MkEntities(i, S, E) ==
    [k \in (S \cup E \cup (IF i = None THEN {} ELSE {"intent"})) |->
        IF k = "intent" THEN i ELSE IF k \in E THEN "" ELSE SlotValue(k)]

\* non-empty member lists a model reply may hold
MemberMaps ==
    { MkEntities(i, S, E) :
        i \in IntentValues \cup {None}, S \in SUBSET SlotKeys,
        E \in SUBSET {"origin"} } \ {EmptyMap}

\* Tokens of a reply handed to extract_entities: "{" and "}" are the brace
\* characters, "x" is a run of prose without braces, "m" is the text of a
\* non-empty JSON member list ("k": v, ...) whose value is the reply's
\* members map.
ExTokens == {"{", "}", "x", "m"}

RECURSIVE SeqsUpTo(_, _)
SeqsUpTo(S, n) ==
    IF n = 0 THEN {<<>>}
    ELSE LET shorter == SeqsUpTo(S, n - 1)
         IN  shorter \cup { Append(s, t) : s \in {u \in shorter : Len(u) = n - 1}, t \in S }

\* str.find(tok): 0-based index of the first occurrence, -1 when there is none
Find(text, tok) ==
    IF \E i \in 1..Len(text) : text[i] = tok
    THEN (CHOOSE i \in 1..Len(text) :
            text[i] = tok /\ \A j \in 1..(i - 1) : text[j] # tok) - 1
    ELSE -1

\* str.rfind(tok): 0-based index of the last occurrence, -1 when there is none
RFind(text, tok) ==
    IF \E i \in 1..Len(text) : text[i] = tok
    THEN (CHOOSE i \in 1..Len(text) :
            text[i] = tok /\ \A j \in (i + 1)..Len(text) : text[j] # tok) - 1
    ELSE -1

\* text[a:b] for 0 <= a, 0 <= b
Slice(text, a, b) == SubSeq(text, a + 1, IF b > Len(text) THEN Len(text) ELSE b)

\* json.loads on a token string: an object is "{" "}" or "{" members "}";
\* anything else raises JSONDecodeError
JsonLoads(s, members) ==
    IF s = <<"{", "}">> THEN [ok |-> TRUE, value |-> EmptyMap]
    ELSE IF s = <<"{", "m", "}">> THEN [ok |-> TRUE, value |-> members]
    ELSE [ok |-> FALSE, value |-> EmptyMap]

GeneralOnly == [intent |-> "general"]

\* variant: a text that does not parse yields the empty dict
ParseEntitiesEmptyOnError(content, members) ==
    LET json_start == Find(content, "{")
        json_end == RFind(content, "}") + 1
    IN  IF json_start >= 0 /\ json_end > json_start
        THEN JsonLoads(Slice(content, json_start, json_end), members).value
        ELSE GeneralOnly

\* variant: the parsed object is completed with a default intent
ParseEntitiesFillsIntent(content, members) ==
    LET json_start == Find(content, "{")
        json_end == RFind(content, "}") + 1
    IN  IF json_start >= 0 /\ json_end > json_start
        THEN LET r == JsonLoads(Slice(content, json_start, json_end), members)
             IN  IF r.ok
                 THEN [k \in DOMAIN r.value \cup {"intent"} |->
                          IF k \in DOMAIN r.value THEN r.value[k] ELSE "general"]
                 ELSE GeneralOnly
        ELSE GeneralOnly

\* extract_entities, the inner try: locate the JSON object and parse it
ParseEntities(content, members) ==
    LET json_start == Find(content, "{")
        json_end == RFind(content, "}") + 1
    IN  IF json_start >= 0 /\ json_end > json_start
        THEN LET r == JsonLoads(Slice(content, json_start, json_end), members)
             IN  IF r.ok THEN r.value ELSE GeneralOnly
        ELSE GeneralOnly

\* extract_entities, the outer try, once generate_response has ended (g):
\* response["choices"][0]["message"]["content"] is read and parsed; a raised
\* call, a body without a first choice message and a null content all end in
\* the outer except clause
EntitiesOf(g) ==
    IF g.pc = "returned" /\ g.response.shape = "full"
    THEN ParseEntities(g.response.content, g.response.members)
    ELSE GeneralOnly

(***************************************************************************)
(* IntentDispatcher: src/travel_handler.py                                 *)
(***************************************************************************)
\* what the provider's search coroutine does when it is awaited
ProviderOutcomes == {"ok", "fail"}
ProviderErrorText == "provider search failed"   \* str(e) of the provider's exception

NoEnvelope == [type |-> None]
HandlerReturn(env, calls) ==
    [raised |-> FALSE, env |-> env, calls |-> calls, requests |-> <<>>, err |-> None]
HandlerRaise(calls, text) ==
    [raised |-> TRUE, env |-> NoEnvelope, calls |-> calls, requests |-> <<>>, err |-> text]

\* the tail shared by the three searching handlers: await client.search(request)
\* and wrap the response
Search(domain, client, request, data, message, prov) ==
    IF prov = "ok"
    THEN [HandlerReturn([type |-> domain, data |-> data, message |-> message],
                        <<client>>) EXCEPT !.requests = <<request>>]
    ELSE [HandlerRaise(<<client>>, ProviderErrorText) EXCEPT !.requests = <<request>>]

\* the strings a departure_date entity is drawn from: empty, a calendar date,
\* a date with a time, and text that is neither
DateOnly == "2025-06-01"
DateWithTime == "2025-06-01T10:00:00"
DateValues == {"", DateOnly, DateWithTime, "next friday"}

\* a date or datetime object: the day, and the time of a datetime (None for a date)
NoDate == [day |-> None, time |-> None]          \* Python None
ADate(day) == [day |-> day, time |-> None]
ADatetime(day, time) == [day |-> day, time |-> time]
Tomorrow == "tomorrow"                           \* date.today() + timedelta(days=1)
Noon == "12:00:00"                               \* datetime.min.time().replace(hour=12)

\* date.fromisoformat: a date, or ValueError
DateFromIso(s) ==
    IF s = DateOnly THEN [raised |-> FALSE, value |-> ADate(DateOnly)]
    ELSE [raised |-> TRUE, value |-> NoDate]

\* datetime.fromisoformat: a datetime (midnight when the string has no time),
\* or ValueError
DatetimeFromIso(s) ==
    IF s = DateWithTime THEN [raised |-> FALSE, value |-> ADatetime(DateOnly, "10:00:00")]
    ELSE IF s = DateOnly THEN [raised |-> FALSE, value |-> ADatetime(DateOnly, "00:00:00")]
    ELSE [raised |-> TRUE, value |-> NoDate]

\* TravelHandler._parse_date
ParseDate(date_str) ==
    IF Falsy(date_str) THEN NoDate
    ELSE IF DateFromIso(date_str).raised THEN NoDate
    ELSE DateFromIso(date_str).value

\* TravelHandler._parse_datetime
ParseDatetime(datetime_str) ==
    IF Falsy(datetime_str) THEN NoDate
    ELSE IF ~DatetimeFromIso(datetime_str).raised THEN DatetimeFromIso(datetime_str).value
    ELSE IF ParseDate(datetime_str) # NoDate
         THEN ADatetime(ParseDate(datetime_str).day, Noon)
    ELSE NoDate

\* class TransportMode(str, Enum): member name |-> value
TransportMode ==
    [TRAIN |-> "train", BUS |-> "bus", FLIGHT |-> "flight", CAR |-> "car",
     FERRY |-> "ferry", SUBWAY |-> "subway", WALK |-> "walk"]

\* the mode names a request is drawn from
ModeNames == {"train", "bus", "Ferry", "hovercraft"}

\* str.upper on those names
Upper(s) ==
    CASE s = "train" -> "TRAIN"
      [] s = "bus" -> "BUS"
      [] s = "Ferry" -> "FERRY"
      [] s = "hovercraft" -> "HOVERCRAFT"
      [] OTHER -> s

\* a JSON value that is null or an array
JsonNull == [null |-> TRUE, items |-> <<>>]
JsonList(items) == [null |-> FALSE, items |-> items]

\* variant: the loop ends at the first name that is no member
ParseModesStopsAtUnknown(names) ==
    LET unknown == {i \in 1..Len(names) : Upper(names[i]) \notin DOMAIN TransportMode}
        n == IF unknown = {} THEN Len(names)
             ELSE (CHOOSE i \in unknown : \A j \in unknown : i <= j) - 1
    IN  [i \in 1..n |-> TransportMode[Upper(names[i])]]

\* the loop over entities["transport_modes"]: hasattr / getattr on mode.upper()
ParseModes(names) ==
    LET kept == SelectSeq(names, LAMBDA m : Upper(m) \in DOMAIN TransportMode)
    IN  [i \in 1..Len(kept) |-> TransportMode[Upper(kept[i])]]

NotIterableText == "'NoneType' object is not iterable"

\* TravelHandler._handle_flight_search
HandleFlightSearch(entities, prov) ==
    LET origin == Get(entities, "origin", None)
        destination == Get(entities, "destination", None)
        parsed == ParseDate(Get(entities, "departure_date", None))
        departure_date == IF parsed = NoDate THEN ADate(Tomorrow) ELSE parsed
    IN  IF Falsy(origin) \/ Falsy(destination)
        THEN HandlerReturn([type |-> "flight", data |-> None,
                message |-> "Missing origin or destination for flight search"], <<>>)
        ELSE Search("flight", "skyscanner",
                    [origin |-> origin, destination |-> destination,
                     departure_date |-> departure_date],
                    "FlightSearchResponse",
                    "Flight options retrieved successfully", prov)

\* TravelHandler._handle_restaurant_search
HandleRestaurantSearch(entities, prov) ==
    LET location == Get(entities, "location", None)
    IN  IF Falsy(location)
        THEN HandlerReturn([type |-> "restaurant", data |-> None,
                message |-> "Missing location for restaurant search"], <<>>)
        ELSE Search("restaurant", "yelp", [location |-> location],
                    "RestaurantSearchResponse",
                    "Restaurant options retrieved successfully", prov)

\* variant: "not origin and not destination"
HandleTransportSearchBothMissing(entities, prov) ==
    LET origin == Get(entities, "origin", None)
        destination == Get(entities, "destination", None)
        parsed == ParseDatetime(Get(entities, "departure_date", None))
        departure_date == IF parsed = NoDate THEN ADatetime(Tomorrow, Noon) ELSE parsed
        named == "transport_modes" \in DOMAIN entities
    IN  IF Falsy(origin) /\ Falsy(destination)
        THEN HandlerReturn([type |-> "transport", data |-> None,
                message |-> "Missing origin or destination for transport search"], <<>>)
        ELSE IF named /\ entities["transport_modes"].null
        THEN HandlerRaise(<<>>, NotIterableText)
        ELSE Search("transport", "rome2rio",
                    [origin |-> origin, destination |-> destination,
                     departure_date |-> departure_date,
                     modes |-> IF named
                               THEN JsonList(ParseModes(entities["transport_modes"].items))
                               ELSE JsonNull],
                    "TransportSearchResponse",
                    "Transport options retrieved successfully", prov)

\* TravelHandler._handle_transport_search
HandleTransportSearch(entities, prov) ==
    LET origin == Get(entities, "origin", None)
        destination == Get(entities, "destination", None)
        parsed == ParseDatetime(Get(entities, "departure_date", None))
        departure_date == IF parsed = NoDate THEN ADatetime(Tomorrow, Noon) ELSE parsed
        named == "transport_modes" \in DOMAIN entities
    IN  IF Falsy(origin) \/ Falsy(destination)
        THEN HandlerReturn([type |-> "transport", data |-> None,
                message |-> "Missing origin or destination for transport search"], <<>>)
        ELSE IF named /\ entities["transport_modes"].null
        THEN HandlerRaise(<<>>, NotIterableText)
        ELSE Search("transport", "rome2rio",
                    [origin |-> origin, destination |-> destination,
                     departure_date |-> departure_date,
                     modes |-> IF named
                               THEN JsonList(ParseModes(entities["transport_modes"].items))
                               ELSE JsonNull],
                    "TransportSearchResponse",
                    "Transport options retrieved successfully", prov)

\* _handle_hotel_search, _handle_attraction_search, _handle_seasonal_advice
HandlePlaceholder(domain, text) ==
    HandlerReturn([type |-> domain, data |-> None, message |-> text], <<>>)

\* variant: the flight branch compares intent.lower()
RouteIgnoringCase(intent) ==
    IF intent \in {"flight", "Flight"} THEN "flight"
    ELSE IF intent = "hotel" THEN "hotel"
    ELSE IF intent = "restaurant" THEN "restaurant"
    ELSE IF intent = "attraction" THEN "attraction"
    ELSE IF intent = "transport" THEN "transport"
    ELSE IF intent = "seasonal_advice" THEN "seasonal_advice"
    ELSE "else"

\* the if/elif chain of process_travel_intent: the branch an intent selects
Route(intent) ==
    IF intent = "flight" THEN "flight"
    ELSE IF intent = "hotel" THEN "hotel"
    ELSE IF intent = "restaurant" THEN "restaurant"
    ELSE IF intent = "attraction" THEN "attraction"
    ELSE IF intent = "transport" THEN "transport"
    ELSE IF intent = "seasonal_advice" THEN "seasonal_advice"
    ELSE "else"

\* the envelope of the else branch
GeneralEnvelope == [type |-> "general", data |-> None]

\* variant: the except clause answers like the else branch
ErrorEnvelopeAsGeneral(text) == [type |-> "general", data |-> None]

\* the except clause of process_travel_intent
ErrorEnvelope(text) == [type |-> "error", message |-> text]

\* TravelHandler.process_travel_intent
ProcessTravelIntent(intent, entities, prov) ==
    LET branch == Route(intent)
        h == CASE branch = "flight" -> HandleFlightSearch(entities, prov)
               [] branch = "hotel" ->
                    HandlePlaceholder("hotel", "Hotel search functionality coming soon")
               [] branch = "restaurant" -> HandleRestaurantSearch(entities, prov)
               [] branch = "attraction" ->
                    HandlePlaceholder("attraction", "Attraction search functionality coming soon")
               [] branch = "transport" -> HandleTransportSearch(entities, prov)
               [] branch = "seasonal_advice" ->
                    HandlePlaceholder("seasonal_advice", "Seasonal advice functionality coming soon")
               [] branch = "else" -> HandlerReturn(GeneralEnvelope, <<>>)
    IN  IF h.raised
        THEN [env |-> ErrorEnvelope(h.err), calls |-> h.calls,
              requests |-> h.requests, failed |-> TRUE]
        ELSE [env |-> h.env, calls |-> h.calls,
              requests |-> h.requests, failed |-> FALSE]

DataPresent(env) == "data" \in DOMAIN env /\ env.data # None
HasMessage(env) == "message" \in DOMAIN env

(***************************************************************************)
(* Bodies of a successful POST /chat/completions                           *)
(***************************************************************************)
FullBody(content, members) ==
    [shape |-> "full", content |-> content, members |-> members]
\* a body without "choices", with an empty list, or whose first choice has no
\* "message"
NoChoiceBody == [shape |-> "no_choices", content |-> <<>>, members |-> EmptyMap]
\* a first choice whose message content is null
NullContentBody == [shape |-> "null_content", content |-> <<>>, members |-> EmptyMap]

Nets(bodies, kinds) ==
    { [kind |-> "ok", body |-> b] : b \in bodies } \cup
    { [kind |-> k, body |-> NoBody] : k \in kinds \ {"ok"} }

(***************************************************************************)
(* EntityExtractor: src/utils/context.py                                   *)
(***************************************************************************)
UserTurn(message) == [role |-> "user", content |-> message]
AssistantTurn(text) == [role |-> "assistant", content |-> text]

\* ex.closes counts the close() calls made on the client of the invocation:
\* it records the run, the code does not read it
IdleEx == [pc |-> "idle", gw |-> IdleCall, client |-> None, entities |-> EmptyMap,
           prompt |-> <<>>, closes |-> 0]

SystemPrompt == [role |-> "system", content |-> <<"entity extraction instruction">>]

\* number of history entries extract_entities copies into its prompt
HistoryWindow == 4

\* conversation_history[max(0, len - 4):]
LastTurns(history) ==
    SubSeq(history,
           (IF Len(history) > HistoryWindow THEN Len(history) - HistoryWindow ELSE 0) + 1,
           Len(history))

\* messages = [system_prompt] + conversation_history + [user message]
ExtractionPrompt(message, history) ==
    <<SystemPrompt>> \o LastTurns(history) \o <<UserTurn(message)>>

\* entry of extract_entities up to the await of generate_response: a client of
\* its own is created, the prompt is built from the message and the context's
\* history, and the call starts with no model named
ExBegin(defaultModel, message, history) ==
    [pc |-> "call", gw |-> GwBegin(None, defaultModel), client |-> "open",
     entities |-> EmptyMap, prompt |-> ExtractionPrompt(message, history),
     closes |-> 0]

\* variant: close() is awaited inside the try block, after the reply is read
ExStepCloseInTry(x, net) ==
    LET g2 == GwStep(x.gw, net)
    IN  IF GwRunning(g2) THEN [x EXCEPT !.gw = g2]
        ELSE IF g2.pc = "raised"
        THEN [x EXCEPT !.gw = g2, !.entities = EntitiesOf(g2), !.pc = "returned"]
        ELSE [x EXCEPT !.gw = g2, !.entities = EntitiesOf(g2), !.pc = "closing"]

\* one attempt of the extraction call; when the call ends the reply is parsed
\* and the function is left awaiting chatgpt_client.close()
ExStep(x, net) ==
    LET g2 == GwStep(x.gw, net)
    IN  IF GwRunning(g2) THEN [x EXCEPT !.gw = g2]
        ELSE [x EXCEPT !.gw = g2, !.entities = EntitiesOf(g2), !.pc = "closing"]

\* await chatgpt_client.close(); return entities
ExReturn(x) ==
    [x EXCEPT !.pc = "returned", !.client = "closed", !.closes = @ + 1]

(***************************************************************************)
(* LinkExtractor: src/link_processor.py                                    *)
(* Reply tokens: "<Links to " is the literal marker prefix, ">" the closing *)
(* bracket, every other token a run of characters without "<" or ">".       *)
(* The replies drawn here hold no "<link:" marker and no place phrase, so   *)
(* only the generic pattern can match in them.                              *)
(***************************************************************************)
LinksTo == "<Links to "
Close == ">"
LinkOpen == "<link:"
Bar == "|"
Newline == "\n"
Dot == "."

\* keywords of _generate_placeholder_url a lower-cased token contains
KeywordsOf(tok) ==
    CASE tok = "book flights" -> {"flight"}
      [] tok = "these places" -> {"place", "these places"}
      [] tok = "attractions" -> {"attraction", "attractions"}
      [] tok \in {"flight", "hotel", "restaurant", "dining", "reservation",
                  "attraction", "place", "transport"} -> {tok}
      [] tok = "HOTEL" -> {"hotel"}
      [] OTHER -> {}

Has(purpose, kw) == \E i \in 1..Len(purpose) : kw \in KeywordsOf(purpose[i])

\* variant: the hotel rule is tested before the flight rule
PlaceholderUrlHotelFirst(purpose) ==
    IF Has(purpose, "hotel") THEN "https://www.booking.com/"
    ELSE IF Has(purpose, "flight") THEN "https://www.skyscanner.com/"
    ELSE IF Has(purpose, "restaurant") \/ Has(purpose, "dining")
            \/ Has(purpose, "reservation") THEN "https://www.opentable.com/"
    ELSE IF Has(purpose, "attraction") \/ Has(purpose, "place")
            \/ Has(purpose, "these places") THEN "https://www.tripadvisor.com/"
    ELSE IF Has(purpose, "transport") THEN "https://www.rome2rio.com/"
    ELSE "https://www.google.com/travel"

\* LinkProcessor._generate_placeholder_url
PlaceholderUrl(purpose) ==
    IF Has(purpose, "flight") THEN "https://www.skyscanner.com/"
    ELSE IF Has(purpose, "hotel") THEN "https://www.booking.com/"
    ELSE IF Has(purpose, "restaurant") \/ Has(purpose, "dining")
            \/ Has(purpose, "reservation") THEN "https://www.opentable.com/"
    ELSE IF Has(purpose, "attraction") \/ Has(purpose, "place")
            \/ Has(purpose, "these places") THEN "https://www.tripadvisor.com/"
    ELSE IF Has(purpose, "transport") THEN "https://www.rome2rio.com/"
    ELSE "https://www.google.com/travel"

\* index of the first ">" after position i, 0 when there is none
NextClose(text, i) ==
    IF \E j \in (i + 1)..Len(text) : text[j] = Close
    THEN CHOOSE j \in (i + 1)..Len(text) :
            text[j] = Close /\ \A k \in (i + 1)..(j - 1) : text[k] # Close
    ELSE 0

\* re.findall(r'<Links to ([^>]+)>', text) from position i on, each match
\* turned into its link
RECURSIVE GenericLinks(_, _)
GenericLinks(text, i) ==
    IF i > Len(text) THEN <<>>
    ELSE LET j == NextClose(text, i)
         IN  IF text[i] = LinksTo /\ j > i + 1
             THEN LET purpose == SubSeq(text, i + 1, j - 1)
                  IN  <<[url |-> <<PlaceholderUrl(purpose)>>,
                         text |-> <<"Find ">> \o purpose,
                         type |-> "general"]>> \o GenericLinks(text, j + 1)
             ELSE GenericLinks(text, i + 1)

\* index of the first tok after position i on the same line, 0 when a line
\* break or the end of the text comes first ("." matches no line break)
NextOnLine(text, i, tok) ==
    IF \E j \in (i + 1)..Len(text) :
          text[j] = tok /\ \A k \in (i + 1)..(j - 1) : text[k] \notin {tok, Newline}
    THEN CHOOSE j \in (i + 1)..Len(text) :
            text[j] = tok /\ \A k \in (i + 1)..(j - 1) : text[k] \notin {tok, Newline}
    ELSE 0

\* the match of r'<link:(.*?)\|(.*?)>' that starts at position i: the
\* positions of its "|" and its ">", <<0, 0>> when there is none
SpecificMatch(text, i) ==
    IF text[i] # LinkOpen THEN <<0, 0>>
    ELSE LET j == NextOnLine(text, i, Bar)
         IN  IF j = 0 THEN <<0, 0>>
             ELSE LET k == NextOnLine(text, j, Close)
                  IN  IF k = 0 THEN <<0, 0>> ELSE <<j, k>>

\* re.findall(r'<link:(.*?)\|(.*?)>', text) from position i on, each match
\* turned into its link
RECURSIVE SpecificLinks(_, _)
SpecificLinks(text, i) ==
    IF i > Len(text) THEN <<>>
    ELSE LET m == SpecificMatch(text, i)
         IN  IF m[2] # 0
             THEN <<[url |-> SubSeq(text, i + 1, m[1] - 1),
                     text |-> SubSeq(text, m[1] + 1, m[2] - 1),
                     type |-> "specific"]>> \o SpecificLinks(text, m[2] + 1)
             ELSE SpecificLinks(text, i + 1)

\* character classes of the tokens the place scan reads: a capitalised word,
\* lower-case letters, lower-case letters followed by one blank, white space
IsCap(tok) == tok \in {"Paris"}
IsLower(tok) == tok \in {"w", "attractions"}
IsLowerSp(tok) == tok \in {"in "}
IsSpace(tok) == tok = Newline

\* tokens made of letters and white space only: [A-Za-z\s]
IsLocChar(tok) ==
    IsCap(tok) \/ IsLower(tok) \/ IsLowerSp(tok) \/ IsSpace(tok)
        \/ tok \in {"book flights", "these places"}

\* "places to visit" in text.lower() or "attractions" in text.lower()
Triggered(text) == Has(text, "places to visit") \/ Has(text, "attractions")

\* first position from j on that is not of [A-Za-z\s]
RECURSIVE RunEnd(_, _)
RunEnd(text, j) ==
    IF j > Len(text) \/ ~IsLocChar(text[j]) THEN j ELSE RunEnd(text, j + 1)

\* r'in ([A-Za-z\s]+)[\.\,]' matches at position i
LocationAt(text, i) ==
    /\ text[i] = "in "
    /\ LET e == RunEnd(text, i + 1)
       IN  e > i + 1 /\ e <= Len(text) /\ text[e] = Dot

\* location_match.group(1) if location_match else "the area"
Location(text) ==
    IF \E i \in 1..Len(text) : LocationAt(text, i)
    THEN LET i == CHOOSE i \in 1..Len(text) :
                    LocationAt(text, i) /\ \A h \in 1..(i - 1) : ~LocationAt(text, h)
         IN  SubSeq(text, i + 1, RunEnd(text, i + 1) - 1)
    ELSE <<"the area">>

\* r'((?:[A-Z][a-z]+\s*)+)(?:\(|\,|\s+and\s+|\.|\s+is)' read from position j
\* on, inWord telling whether the last character read is a letter: the
\* position of the "." that ends the match, 0 when the match fails
RECURSIVE PlaceEnd(_, _, _)
PlaceEnd(text, j, inWord) ==
    IF j > Len(text) THEN 0
    ELSE LET t == text[j]
         IN  IF t = Dot THEN j
             ELSE IF IsCap(t) THEN PlaceEnd(text, j + 1, TRUE)
             ELSE IF IsSpace(t) THEN PlaceEnd(text, j + 1, FALSE)
             ELSE IF inWord /\ IsLower(t) THEN PlaceEnd(text, j + 1, TRUE)
             ELSE IF inWord /\ IsLowerSp(t) THEN PlaceEnd(text, j + 1, FALSE)
             ELSE 0

\* str.strip() of a place: the white space at its end is removed
RECURSIVE Strip(_)
Strip(place) ==
    IF place = <<>> THEN <<>>
    ELSE LET n == Len(place)
         IN  IF IsSpace(place[n]) THEN Strip(SubSeq(place, 1, n - 1))
             ELSE IF place[n] = "in " THEN Append(SubSeq(place, 1, n - 1), "in")
             ELSE place

\* re.findall(place_pattern, text) from position i on, each place stripped
RECURSIVE PlaceMatches(_, _)
PlaceMatches(text, i) ==
    IF i > Len(text) THEN <<>>
    ELSE LET k == IF IsCap(text[i]) THEN PlaceEnd(text, i + 1, TRUE) ELSE 0
         IN  IF k # 0
             THEN <<Strip(SubSeq(text, i, k - 1))>> \o PlaceMatches(text, k + 1)
             ELSE PlaceMatches(text, i + 1)

\* len() of a token and of a token sequence
CharLen(tok) ==
    CASE tok = "Paris" -> 5
      [] tok = "attractions" -> 11
      [] tok = "in " -> 3
      [] tok = "in" -> 2
      [] OTHER -> 1

RECURSIVE PlaceLen(_)
PlaceLen(place) ==
    IF place = <<>> THEN 0 ELSE CharLen(Head(place)) + PlaceLen(Tail(place))

ExcludedPlaces == {<<"New York">>, <<"United States">>, <<"America">>}

\* the places kept: len(place) > 3 and place not in the excluded names
RECURSIVE KeptPlaces(_)
KeptPlaces(found) ==
    IF found = <<>> THEN <<>>
    ELSE IF PlaceLen(Head(found)) > 3 /\ Head(found) \notin ExcludedPlaces
         THEN <<Head(found)>> \o KeptPlaces(Tail(found))
         ELSE KeptPlaces(Tail(found))

\* str.replace(' ', '+') of a token
PlusFor(tok) ==
    CASE tok = "in " -> "in+"
      [] tok = "the area" -> "the+area"
      [] tok = "book flights" -> "book+flights"
      [] tok = "these places" -> "these+places"
      [] OTHER -> tok

\* the heuristic place scan of extract_links: a link for each of the first
\* three places, then the "Explore" link
HeuristicLinks(text) ==
    IF ~Triggered(text) THEN <<>>
    ELSE LET location == Location(text)
             places == KeptPlaces(PlaceMatches(text, 1))
             first3 == SubSeq(places, 1, IF Len(places) < 3 THEN Len(places) ELSE 3)
         IN  [i \in 1..Len(first3) |->
                 [url |-> <<"https://www.google.com/search?q=">> \o first3[i]
                            \o <<"+">> \o location,
                  text |-> <<"Learn about ">> \o first3[i],
                  type |-> "attraction"]]
             \o <<[url |-> <<"https://www.google.com/search?q=things+to+do+in+">>
                             \o [i \in 1..Len(location) |-> PlusFor(location[i])],
                   text |-> <<"Explore ">> \o location,
                   type |-> "general"]>>

\* variant: the specific markers are collected before the generic ones
ExtractLinksSpecificFirst(text, fault) ==
    IF fault THEN <<>>
    ELSE SpecificLinks(text, 1) \o GenericLinks(text, 1) \o HeuristicLinks(text)

\* LinkProcessor.extract_links; fault: an exception inside the try block,
\* answered by the except clause with the empty list
ExtractLinks(text, fault) ==
    IF fault THEN <<>>
    ELSE GenericLinks(text, 1) \o SpecificLinks(text, 1) \o HeuristicLinks(text)

\* re.sub(r'<link:(.*?)\|(.*?)>', r'\2', text) from position i on
RECURSIVE FormatFrom(_, _)
FormatFrom(text, i) ==
    IF i > Len(text) THEN <<>>
    ELSE LET m == SpecificMatch(text, i)
         IN  IF m[2] # 0
             THEN SubSeq(text, m[1] + 1, m[2] - 1) \o FormatFrom(text, m[2] + 1)
             ELSE <<text[i]>> \o FormatFrom(text, i + 1)

\* LinkProcessor.format_response_with_links
FormatResponseWithLinks(text) == FormatFrom(text, 1)

IdleLp == [pc |-> "idle", text |-> <<>>, links |-> <<>>, out |-> <<>>,
           again |-> <<>>]

\* links = LinkProcessor.extract_links(text)
LpExtractStep(l) == [l EXCEPT !.pc = "extracted", !.links = ExtractLinks(l.text, FALSE)]

\* out = LinkProcessor.format_response_with_links(text)
LpFormatStep(l) == [l EXCEPT !.pc = "formatted", !.out = FormatResponseWithLinks(l.text)]

\* again = LinkProcessor.format_response_with_links(out)
LpFormatAgainStep(l) ==
    [l EXCEPT !.pc = "reformatted", !.again = FormatResponseWithLinks(l.out)]

(***************************************************************************)
(* Service start and shutdown: src/main.py                                 *)
(***************************************************************************)
Providers == {"skyscanner", "expedia", "yelp", "zomato", "rome2rio", "google"}

\* the clients a TravelHandler creates: its providers and its own gateway
HandlerClients(h) == {<<h, c>> : c \in Providers \cup {"chatgpt"}}

Orchestrator == "conversation_service"
OrchestratorHandler == "conversation_service.travel_handler"
SearchHandler == "travel_handler"

\* every client the module-level initialisation creates
Clients ==
    {<<Orchestrator, "chatgpt">>} \cup HandlerClients(OrchestratorHandler)
        \cup HandlerClients(SearchHandler)

\* the service after start-up: every client is open
Running == [pc |-> "running", open |-> Clients]

\* shutdown_event starts and awaits conversation_service.close(), which
\* awaits chatgpt_client.close() first
ShutdownBegin(d) == [d EXCEPT !.pc = "gateway"]

\* the orchestrator's gateway is closed; travel_handler.close() is awaited
\* next and starts the close of each of its clients
CloseGateway(d) ==
    [d EXCEPT !.pc = "gather", !.open = @ \ {<<Orchestrator, "chatgpt">>}]

\* Rome2RioClient.close(): as the close of the other provider clients
Rome2RioClose(open, h) == open \ {<<h, "rome2rio">>}

\* one of the closes handed to asyncio.gather finishes
CloseTask(d, c) ==
    [d EXCEPT !.open = IF c[2] = "rome2rio" THEN Rome2RioClose(@, c[1])
                       ELSE @ \ {c}]

\* asyncio.gather returns once every close has finished; close() and
\* shutdown_event return
GatherJoin(d) == [d EXCEPT !.pc = "complete"]

(***************************************************************************)
(* ConversationOrchestrator: src/enhanced_conversation.py                  *)
(***************************************************************************)
NoText == <<"<no text>">>

\* the reply of the except clause of process_message
Apology(errorType) ==
    <<"I'm having trouble processing your request. There was an error: ",
      errorType,
      ". Please try again in a moment, or let me know if I can help with something else.">>

DefaultMarker == <<LinksTo, "these places", Close>>

\* sub in text (substring test on token strings)
Contains(text, sub) ==
    \E i \in 0..(Len(text) - Len(sub)) :
        \A k \in 1..Len(sub) : text[i + k] = sub[k]

\* _generate_response once its generate_response call has ended (g): the
\* content of the first choice, with the default marker appended for an
\* attraction reply that holds no marker; every failure is re-raised
SynthesisResult(g, entities) ==
    IF g.pc = "raised"
    THEN [raised |-> TRUE, err |-> g.raised.type, text |-> NoText]
    ELSE IF g.response.shape = "no_choices"
    THEN [raised |-> TRUE, err |-> "ValueError", text |-> NoText]
    ELSE IF g.response.shape = "null_content"
    THEN [raised |-> TRUE, err |-> "TypeError", text |-> NoText]
    ELSE LET content == g.response.content
             intent == Get(entities, "intent", "")
         IN  [raised |-> FALSE, err |-> None,
              text |-> IF intent = "attraction"
                          /\ ~Contains(content, DefaultMarker)
                          /\ ~Contains(content, <<LinksTo>>)
                       THEN content \o DefaultMarker
                       ELSE content]

IdleFrame ==
    [pc |-> "idle", message |-> <<>>, ex |-> IdleEx, gw |-> IdleCall,
     entities |-> EmptyMap, envelope |-> NoEnvelope, calls |-> <<>>,
     prov |-> None, text |-> NoText, links |-> <<>>, context |-> None,
     outcome |-> "none", entry |-> <<>>, stages |-> <<>>, faults |-> {},
     history |-> <<>>]

\* frame.entry is conversation_history as the invocation found it, frame.prov
\* the outcome of the provider search the invocation awaited (None: no search),
\* frame.stages the stages the invocation has entered, in order, frame.faults
\* the stages that failed: they record the run, the code does not read them.

\* variant: the user turn is appended only with the assistant turn
BeginTurnDefersAppend(c, message, now, defaultModel) ==
    [ctx |-> [c EXCEPT !.last_interaction = now],
     frame |-> [IdleFrame EXCEPT !.pc = "extract", !.message = message,
                                 !.entry = c.conversation_history,
                                 !.stages = <<"extraction">>,
                                 !.ex = ExBegin(defaultModel, message,
                                                c.conversation_history)]]

\* process_message up to the first await inside extract_entities: the user
\* turn is appended, last_interaction is set, the extraction call starts
BeginTurn(c, message, now, defaultModel) ==
    [ctx |-> [c EXCEPT !.conversation_history = Append(@, UserTurn(message)),
                       !.last_interaction = now],
     frame |-> [IdleFrame EXCEPT !.pc = "extract", !.message = message,
                                 !.entry = c.conversation_history,
                                 !.stages = <<"extraction">>,
                                 !.ex = ExBegin(defaultModel, message,
                                                Append(c.conversation_history,
                                                       UserTurn(message)))]]

\* did the extraction call end in the outer except clause of extract_entities
ModelFault(g) == g.pc = "raised" \/ g.response.shape # "full"

\* one attempt of the extraction call of the turn
ExtractAttemptStep(f, net) ==
    LET x2 == ExStep(f.ex, net)
    IN  [f EXCEPT !.ex = x2,
                  !.faults = IF x2.pc = "closing" /\ ModelFault(x2.gw)
                             THEN @ \cup {"extraction"} ELSE @]

\* extract_entities returns: its entities become the turn's entities
ExtractReturnStep(f) ==
    [f EXCEPT !.entities = ExReturn(f.ex).entities, !.ex = IdleEx,
              !.pc = "dispatch"]

\* history_limit of _generate_response
HistoryLimit == 10

\* context.conversation_history[start_idx:] as _generate_response reads it
SynthesisHistory(history) ==
    IF Len(history) <= HistoryLimit THEN history
    ELSE SubSeq(history, Len(history) - HistoryLimit + 1, Len(history))

\* intent = entities.get("intent", "general"); process_travel_intent is
\* awaited; _generate_response runs up to its await of generate_response,
\* reading the history of the context c
DispatchStep(f, c, prov, defaultModel) ==
    LET intent == Get(f.entities, "intent", "general")
        r == ProcessTravelIntent(intent, f.entities, prov)
    IN  [f EXCEPT !.envelope = r.env, !.calls = r.calls, !.pc = "synth",
                  !.history = SynthesisHistory(c.conversation_history),
                  !.stages = @ \o <<"dispatch", "synthesis">>,
                  !.prov = IF r.calls = <<>> THEN None ELSE prov,
                  !.gw = GwBegin(None, defaultModel),
                  !.faults = IF r.failed THEN @ \cup {"dispatch"} ELSE @]

\* variant: the except clause re-raises
CatchAllReraise(f, c, errorType) ==
    [ctx |-> c, frame |-> [f EXCEPT !.pc = "done", !.outcome = "raised"]]

\* variant: the apology is appended as the assistant turn
CatchAllAppends(f, c, errorType) ==
    [ctx |-> [c EXCEPT !.conversation_history =
                          Append(@, AssistantTurn(Apology(errorType)))],
     frame |-> [f EXCEPT !.pc = "done", !.outcome = "returned",
                         !.text = Apology(errorType), !.links = <<>>,
                         !.context = "ctx"]]

\* variant: the except clause takes the user turn back
CatchAllRollsBack(f, c, errorType) ==
    [ctx |-> [c EXCEPT !.conversation_history = f.entry],
     frame |-> [f EXCEPT !.pc = "done", !.outcome = "returned",
                         !.text = Apology(errorType), !.links = <<>>,
                         !.context = "ctx"]]

\* variant: the except clause scans the apology for links
CatchAllExtractsLinks(f, c, errorType) ==
    [ctx |-> c,
     frame |-> [f EXCEPT !.pc = "done", !.outcome = "returned",
                         !.text = Apology(errorType),
                         !.links = ExtractLinks(Apology(errorType), FALSE),
                         !.stages = Append(@, "links"),
                         !.context = "ctx"]]

\* the except clause of process_message: the apology is returned with no
\* links and the context as it stands
CatchAll(f, c, errorType) ==
    [ctx |-> c,
     frame |-> [f EXCEPT !.pc = "done", !.outcome = "returned",
                         !.text = Apology(errorType), !.links = <<>>,
                         !.context = "ctx"]]

\* process_message after the synthesis call has ended (g): the assistant turn
\* is appended, the links are taken from the envelope or extracted from the
\* text, and the result is returned
FinishTurn(f, c, g, linkFault) ==
    LET r == SynthesisResult(g, f.entities)
        f2 == [f EXCEPT !.gw = g]
        links0 == Get(f.envelope, "links", <<>>)
    IN  IF r.raised
        THEN CatchAll([f2 EXCEPT !.faults = @ \cup {"synthesis"}], c, r.err)
        ELSE [ctx |-> [c EXCEPT !.conversation_history =
                                    Append(@, AssistantTurn(r.text))],
              frame |-> [f2 EXCEPT !.pc = "done", !.outcome = "returned",
                            !.text = r.text, !.context = "ctx",
                            !.stages = Append(@, "links"),
                            !.links = IF links0 = <<>>
                                      THEN ExtractLinks(r.text, linkFault)
                                      ELSE links0,
                            !.faults = IF linkFault THEN @ \cup {"links"} ELSE @]]

\* one attempt of the synthesis call of the turn
SynthAttemptStep(f, c, net, linkFault) ==
    LET g2 == GwStep(f.gw, net)
    IN  IF GwRunning(g2) THEN [ctx |-> c, frame |-> [f EXCEPT !.gw = g2]]
        ELSE FinishTurn(f, c, g2, linkFault)

(***************************************************************************)
(* Inputs                                                                  *)
(***************************************************************************)
\* replies to a direct generate_response call
GatewayBodies == {FullBody(<<"w">>, EmptyMap), NoChoiceBody}

\* replies to the extraction call: every token string up to MaxContentLen,
\* with every member list where the string holds one
\* and two replies that hold one object with prose on both sides
ProseWrapped == { <<"x", "{", "m", "}", "x">>, <<"x", "{", "}", "x">> }
ExtractContents == SeqsUpTo(ExTokens, MaxContentLen) \cup ProseWrapped
HoldsMembers(content) == \E i \in 1..Len(content) : content[i] = "m"
ExtractBodies ==
    { FullBody(c, EmptyMap) : c \in {t \in ExtractContents : ~HoldsMembers(t)} }
    \cup { FullBody(c, m) : c \in {t \in ExtractContents : HoldsMembers(t)},
                            m \in MemberMaps }
    \cup {NoChoiceBody, NullContentBody}

\* replies to the extraction call of a turn
TurnMemberMaps == { m \in MemberMaps : \A k \in DOMAIN m : m[k] # "" }
TurnExtractBodies ==
    { FullBody(<<"x", "{", "m", "}">>, m) : m \in TurnMemberMaps }
    \cup {FullBody(<<"x">>, EmptyMap), FullBody(<<"{", "}">>, EmptyMap),
          NoChoiceBody}

\* replies to the synthesis call of a turn
SynthContents ==
    { <<>>, <<"w">>, <<"w", LinksTo, "book flights", Close>>, <<"w", LinksTo>> }
SynthBodies ==
    { FullBody(c, EmptyMap) : c \in SynthContents }
    \cup {NoChoiceBody, NullContentBody}

Messages == { <<"hello">>, <<"flights?">> }
TurnNetKinds == {"ok", "timeout"}

EmptyContext ==
    [conversation_history |-> <<>>, last_interaction |-> 0,
     location |-> None, preferences |-> None]

\* the context of a user who has not chatted yet: as created, or with the
\* profile set by the update_user_location / update_user_preferences routes
FreshContexts ==
    { EmptyContext,
      [EmptyContext EXCEPT !.location = "Lagos", !.preferences = "budget"] }

\* no search request has been made
IdleSearch ==
    [pc |-> "idle", via |-> None, intent |-> None, entities |-> EmptyMap,
     prov |-> None, status |-> 0, data |-> None, detail |-> None,
     calls |-> <<>>, requests |-> <<>>, failed |-> FALSE, env |-> NoEnvelope]

\* ConversationService before process_message is called
IdleSvc ==
    [pc |-> "idle", history |-> <<>>, messages |-> <<>>, gw |-> IdleCall,
     text |-> NoText, links |-> <<>>]

\* the two chat requests of one user that are in progress together
Tasks == {"a", "b"}
IdleTasks == [t \in Tasks |-> IdleFrame]

(***************************************************************************)
(* Specification of one generate_response call                             *)
(***************************************************************************)
InitGateway ==
    /\ settings \in { [default_model |-> m] : m \in Models }
    /\ call = IdleCall
    /\ ex = IdleEx
    /\ ctx = EmptyContext
    /\ frame = IdleFrame
    /\ served = 0
    /\ lp = IdleLp
    /\ down = Running
    /\ search = IdleSearch
    /\ svc = IdleSvc
    /\ tasks = IdleTasks

\* a caller invokes generate_response, naming a model or not
GwCall ==
    /\ call.pc = "idle"
    /\ \E kw \in Models \cup {None} :
          call' = GwBegin(kw, settings.default_model)
    /\ UNCHANGED <<search, svc, tasks, settings, ex, ctx, frame, served, lp, down>>

GwAttempt(stage) ==
    /\ call.pc = stage
    /\ \E net \in Nets(GatewayBodies, NetKinds) : call' = GwStep(call, net)
    /\ UNCHANGED <<search, svc, tasks, settings, ex, ctx, frame, served, lp, down>>

GwPrimaryAttempt == GwAttempt("primary")
GwFallbackAttempt == GwAttempt("fallback")
GwFinalAttempt == GwAttempt("final")

NextGateway ==
    \/ GwCall
    \/ GwPrimaryAttempt
    \/ GwFallbackAttempt
    \/ GwFinalAttempt

SpecGateway == InitGateway /\ [][NextGateway]_vars

(***************************************************************************)
(* Specification of one extract_entities call                              *)
(***************************************************************************)
InitExtract ==
    /\ settings = [default_model |-> DefaultModel]
    /\ call = IdleCall
    /\ ex = IdleEx
    /\ ctx = EmptyContext
    /\ frame = IdleFrame
    /\ served = 0
    /\ lp = IdleLp
    /\ down = Running
    /\ search = IdleSearch
    /\ svc = IdleSvc
    /\ tasks = IdleTasks

ExCall ==
    /\ ex.pc = "idle"
    /\ ex' = ExBegin(settings.default_model, <<"hello">>, ctx.conversation_history)
    /\ UNCHANGED <<search, svc, tasks, call, settings, ctx, frame, served, lp, down>>

ExAttempt ==
    /\ ex.pc = "call"
    /\ \E net \in Nets(ExtractBodies, NetKinds) : ex' = ExStep(ex, net)
    /\ UNCHANGED <<search, svc, tasks, call, settings, ctx, frame, served, lp, down>>

ExClose ==
    /\ ex.pc = "closing"
    /\ ex' = ExReturn(ex)
    /\ UNCHANGED <<search, svc, tasks, call, settings, ctx, frame, served, lp, down>>

NextExtract == ExCall \/ ExAttempt \/ ExClose

SpecExtract == InitExtract /\ [][NextExtract]_vars

(***************************************************************************)
(* Specification of the turns of one user                                  *)
(***************************************************************************)
Init ==
    /\ settings = [default_model |-> DefaultModel]
    /\ call = IdleCall
    /\ ex = IdleEx
    /\ ctx \in FreshContexts
    /\ frame = IdleFrame
    /\ served = 0
    /\ lp = IdleLp
    /\ down = Running
    /\ search = IdleSearch
    /\ svc = IdleSvc
    /\ tasks = IdleTasks

StartTurn ==
    /\ frame.pc = "idle"
    /\ served < MaxTurns
    /\ \E m \in Messages :
          LET r == BeginTurn(ctx, m, served + 1, settings.default_model)
          IN  ctx' = r.ctx /\ frame' = r.frame
    /\ served' = served + 1
    /\ UNCHANGED <<search, svc, tasks, call, settings, ex, lp, down>>

ExtractAttempt ==
    /\ frame.pc = "extract"
    /\ frame.ex.pc = "call"
    /\ \E net \in Nets(TurnExtractBodies, TurnNetKinds) :
          frame' = ExtractAttemptStep(frame, net)
    /\ UNCHANGED <<search, svc, tasks, call, settings, ex, ctx, served, lp, down>>

ExtractReturn ==
    /\ frame.pc = "extract"
    /\ frame.ex.pc = "closing"
    /\ frame' = ExtractReturnStep(frame)
    /\ UNCHANGED <<search, svc, tasks, call, settings, ex, ctx, served, lp, down>>

Dispatch ==
    /\ frame.pc = "dispatch"
    /\ \E prov \in ProviderOutcomes :
          frame' = DispatchStep(frame, ctx, prov, settings.default_model)
    /\ UNCHANGED <<search, svc, tasks, call, settings, ex, ctx, served, lp, down>>

SynthAttempt ==
    /\ frame.pc = "synth"
    /\ \E net \in Nets(SynthBodies, TurnNetKinds), linkFault \in BOOLEAN :
          LET r == SynthAttemptStep(frame, ctx, net, linkFault)
          IN  ctx' = r.ctx /\ frame' = r.frame
    /\ UNCHANGED <<search, svc, tasks, call, settings, ex, served, lp, down>>

\* the caller has taken the result; the invocation's locals are gone
Deliver ==
    /\ frame.pc = "done"
    /\ frame' = IdleFrame
    /\ UNCHANGED <<search, svc, tasks, call, settings, ex, ctx, served, lp, down>>

Next ==
    \/ StartTurn
    \/ ExtractAttempt
    \/ ExtractReturn
    \/ Dispatch
    \/ SynthAttempt
    \/ Deliver

Spec == Init /\ [][Next]_vars

(***************************************************************************)
(* Properties                                                              *)
(***************************************************************************)
(***************************************************************************)
(* Specification of the LinkProcessor functions applied to one text        *)
(***************************************************************************)
MarkerTokens == {LinkOpen, Bar, Close, Newline}
ScanTokens == {LinksTo, LinkOpen, Bar, Close, "attractions", "in ", "Paris", Dot}

PurposeTokens ==
    {"flight", "hotel", "restaurant", "dining", "reservation", "attraction",
     "place", "transport", "HOTEL", "w"}

\* one generic marker whose purpose is made of at most n purpose tokens
PurposeTexts(n) ==
    { <<LinksTo>> \o p \o <<Close>> : p \in SeqsUpTo(PurposeTokens, n) \ {<<>>} }

\* the texts of at most m marker tokens, those of at most n scan tokens and
\* the generic markers
LinkTexts(m, n) ==
    SeqsUpTo(MarkerTokens, m) \cup SeqsUpTo(ScanTokens, n)
        \cup PurposeTexts(MaxPurposeLen)

InitLinks ==
    /\ settings = [default_model |-> DefaultModel]
    /\ call = IdleCall
    /\ ex = IdleEx
    /\ ctx = EmptyContext
    /\ frame = IdleFrame
    /\ served = 0
    /\ lp \in {[IdleLp EXCEPT !.text = t] : t \in LinkTexts(MaxMarkerLen, MaxScanLen)}
    /\ down = Running
    /\ search = IdleSearch
    /\ svc = IdleSvc
    /\ tasks = IdleTasks

LpExtract ==
    /\ lp.pc = "idle"
    /\ lp' = LpExtractStep(lp)
    /\ UNCHANGED <<search, svc, tasks, call, ex, settings, ctx, frame, served, down>>

LpFormat ==
    /\ lp.pc = "extracted"
    /\ lp' = LpFormatStep(lp)
    /\ UNCHANGED <<search, svc, tasks, call, ex, settings, ctx, frame, served, down>>

LpFormatAgain ==
    /\ lp.pc = "formatted"
    /\ lp' = LpFormatAgainStep(lp)
    /\ UNCHANGED <<search, svc, tasks, call, ex, settings, ctx, frame, served, down>>

NextLinks ==
    \/ LpExtract
    \/ LpFormat
    \/ LpFormatAgain

SpecLinks == InitLinks /\ [][NextLinks]_vars

(***************************************************************************)
(* Specification of the shutdown of the running service                    *)
(***************************************************************************)
InitShutdown ==
    /\ settings = [default_model |-> DefaultModel]
    /\ call = IdleCall
    /\ ex = IdleEx
    /\ ctx = EmptyContext
    /\ frame = IdleFrame
    /\ served = 0
    /\ lp = IdleLp
    /\ down = Running
    /\ search = IdleSearch
    /\ svc = IdleSvc
    /\ tasks = IdleTasks

Shutdown ==
    /\ down.pc = "running"
    /\ down' = ShutdownBegin(down)
    /\ UNCHANGED <<search, svc, tasks, call, ex, settings, ctx, frame, served, lp>>

GatewayClosed ==
    /\ down.pc = "gateway"
    /\ down' = CloseGateway(down)
    /\ UNCHANGED <<search, svc, tasks, call, ex, settings, ctx, frame, served, lp>>

ClientClosed ==
    /\ down.pc = "gather"
    /\ \E c \in HandlerClients(OrchestratorHandler) \cap down.open :
          down' = CloseTask(down, c)
    /\ UNCHANGED <<search, svc, tasks, call, ex, settings, ctx, frame, served, lp>>

ShutdownComplete ==
    /\ down.pc = "gather"
    /\ HandlerClients(OrchestratorHandler) \cap down.open = {}
    /\ down' = GatherJoin(down)
    /\ UNCHANGED <<search, svc, tasks, call, ex, settings, ctx, frame, served, lp>>

NextShutdown ==
    \/ Shutdown
    \/ GatewayClosed
    \/ ClientClosed
    \/ ShutdownComplete

SpecShutdown == InitShutdown /\ [][NextShutdown]_vars

(***************************************************************************)
(* Specification of one search request: dispatched by                      *)
(* process_travel_intent, or made at the transport search endpoint         *)
(***************************************************************************)
\* date.isoformat / datetime.isoformat
IsoFormat(d) ==
    IF d = ADatetime(DateOnly, "10:00:00") THEN DateWithTime ELSE d.day

\* the entity map of a dispatched search: destination is always named, the
\* other members are present or not
SearchEntities(origin, hasDate, date, hasModes, names) ==
    [k \in {"origin", "destination"}
           \cup (IF hasDate THEN {"departure_date"} ELSE {})
           \cup (IF hasModes THEN {"transport_modes"} ELSE {}) |->
        CASE k = "origin" -> origin
          [] k = "destination" -> "Paris"
          [] k = "departure_date" -> date
          [] k = "transport_modes" -> JsonList(names)]

\* process_travel_intent awaited on a flight or transport intent
DispatchSearch(intent, entities, prov) ==
    LET r == ProcessTravelIntent(intent, entities, prov)
    IN  [IdleSearch EXCEPT !.pc = "done", !.via = "dispatch", !.intent = intent,
                           !.entities = entities, !.prov = prov,
                           !.env = r.env, !.calls = r.calls,
                           !.requests = r.requests, !.failed = r.failed]

\* main.search_transport: the request becomes an entity map, the handler is
\* awaited, its data is returned; any exception becomes an HTTP 500
SearchTransport(request, prov) ==
    LET entities ==
            [origin |-> request.origin,
             destination |-> request.destination,
             departure_date |-> IsoFormat(request.departure_date),
             transport_modes |-> IF request.modes.null \/ request.modes.items = <<>>
                                 THEN JsonNull
                                 ELSE JsonList(request.modes.items)]
        h == HandleTransportSearch(entities, prov)
        s == [IdleSearch EXCEPT !.pc = "done", !.via = "direct",
                                !.intent = "transport", !.entities = entities,
                                !.prov = prov, !.calls = h.calls,
                                !.requests = h.requests, !.failed = h.raised]
    IN  IF h.raised
        THEN [s EXCEPT !.status = 500, !.detail = h.err]
        ELSE [s EXCEPT !.status = 200, !.data = h.env.data, !.env = h.env]

\* the values of the TransportMode members
ModeValues == { TransportMode[n] : n \in DOMAIN TransportMode }

InitSearch ==
    /\ settings = [default_model |-> DefaultModel]
    /\ call = IdleCall
    /\ ex = IdleEx
    /\ ctx = EmptyContext
    /\ frame = IdleFrame
    /\ served = 0
    /\ lp = IdleLp
    /\ down = Running
    /\ search = IdleSearch
    /\ svc = IdleSvc
    /\ tasks = IdleTasks

\* the dispatcher is handed a flight or transport intent with its entities
SearchDispatched ==
    /\ search.pc = "idle"
    /\ \E intent \in {"flight", "transport"}, origin \in {"NYC", ""},
          hasDate \in BOOLEAN, date \in DateValues,
          hasModes \in BOOLEAN, names \in SeqsUpTo(ModeNames, MaxModes),
          prov \in ProviderOutcomes :
          search' = DispatchSearch(intent,
                        SearchEntities(origin, hasDate, date, hasModes, names), prov)
    /\ UNCHANGED <<call, ex, settings, ctx, frame, served, lp, down, svc, tasks>>

\* a validated TransportSearchRequest arrives at POST /api/transport/search
SearchDirect ==
    /\ search.pc = "idle"
    /\ \E modes \in {JsonNull} \cup { JsonList(l) : l \in SeqsUpTo(ModeValues, MaxModes) },
          prov \in ProviderOutcomes :
          search' = SearchTransport(
                        [origin |-> "NYC", destination |-> "Paris",
                         departure_date |-> ADatetime(DateOnly, "10:00:00"),
                         modes |-> modes], prov)
    /\ UNCHANGED <<call, ex, settings, ctx, frame, served, lp, down, svc, tasks>>

NextSearch == SearchDispatched \/ SearchDirect

SpecSearch == InitSearch /\ [][NextSearch]_vars

(***************************************************************************)
(* ConversationService: src/services/conversation.py                       *)
(***************************************************************************)
SvcSystemPrompt == [role |-> "system", content |-> <<"travel assistant instruction">>]
SvcHistoryLimit == 10
TroubleConnecting == <<"I'm having trouble connecting to my travel database">>

\* conversation_history[start_idx:] with start_idx = max(0, len - history_limit)
SvcLastTurns(history) ==
    IF Len(history) <= SvcHistoryLimit THEN history
    ELSE SubSeq(history, Len(history) - SvcHistoryLimit + 1, Len(history))

\* process_message up to the await of generate_response in _handle_query: the
\* user turn is appended and the messages are built
SvcBegin(s, message, defaultModel) ==
    LET history == Append(s.history, UserTurn(message))
    IN  [IdleSvc EXCEPT !.pc = "query", !.history = history,
                        !.messages = <<SvcSystemPrompt>> \o SvcLastTurns(history),
                        !.gw = GwBegin(None, defaultModel)]

\* getattr(obj, name) where obj is the dict response.json() produced: a dict
\* has no attribute named after one of its keys
DictAttribute(body, name) == [raised |-> TRUE, err |-> "AttributeError", value |-> NoBody]

\* _handle_query once generate_response has ended (g): the text it returns
HandleQueryResult(g) ==
    IF g.pc = "raised" THEN TroubleConnecting
    ELSE IF DictAttribute(g.response, "choices").raised THEN TroubleConnecting
    ELSE DictAttribute(g.response, "choices").value.content

\* the rest of process_message: the assistant turn is appended and the text
\* is returned with no links
SvcFinish(s, g) ==
    [s EXCEPT !.pc = "done", !.gw = g, !.text = HandleQueryResult(g),
              !.history = Append(@, AssistantTurn(HandleQueryResult(g))),
              !.links = <<>>]

\* one attempt of the generate_response call of the invocation
SvcAttemptStep(s, net) ==
    LET g2 == GwStep(s.gw, net)
    IN  IF GwRunning(g2) THEN [s EXCEPT !.gw = g2] ELSE SvcFinish(s, g2)

InitService ==
    /\ settings = [default_model |-> DefaultModel]
    /\ call = IdleCall
    /\ ex = IdleEx
    /\ ctx = EmptyContext
    /\ frame = IdleFrame
    /\ served = 0
    /\ lp = IdleLp
    /\ down = Running
    /\ search = IdleSearch
    /\ svc = IdleSvc
    /\ tasks = IdleTasks

\* process_message is called with the context the previous call returned
SvcCall ==
    /\ svc.pc \in {"idle", "done"}
    /\ served < MaxTurns
    /\ \E m \in Messages : svc' = SvcBegin(svc, m, settings.default_model)
    /\ served' = served + 1
    /\ UNCHANGED <<call, ex, settings, ctx, frame, lp, down, search, tasks>>

SvcAttempt ==
    /\ svc.pc = "query"
    /\ \E net \in Nets(SynthBodies, NetKinds) : svc' = SvcAttemptStep(svc, net)
    /\ UNCHANGED <<call, ex, settings, ctx, frame, served, lp, down, search, tasks>>

NextService == SvcCall \/ SvcAttempt

SpecService == InitService /\ [][NextService]_vars

(***************************************************************************)
(* Specification of two chat requests of one user in progress together:    *)
(* both invocations of process_message hold the UserContext that           *)
(* get_user_context returned, and interleave at their awaits               *)
(***************************************************************************)
\* replies to the extraction and synthesis calls of the two requests
PairExtractBodies ==
    {FullBody(<<"{", "}">>, EmptyMap),
     FullBody(<<"x", "{", "m", "}">>, MkEntities("flight", {"origin", "destination"}, {})),
     NoChoiceBody}
PairSynthBodies == {FullBody(<<"w">>, EmptyMap), FullBody(<<"v">>, EmptyMap), NoChoiceBody}

InitPair ==
    /\ settings = [default_model |-> DefaultModel]
    /\ call = IdleCall
    /\ ex = IdleEx
    /\ ctx = EmptyContext
    /\ frame = IdleFrame
    /\ served = 0
    /\ lp = IdleLp
    /\ down = Running
    /\ search = IdleSearch
    /\ svc = IdleSvc
    /\ tasks = IdleTasks

\* a chat request arrives: process_message runs to its first await
TaskStart(t) ==
    /\ tasks[t].pc = "idle"
    /\ \E m \in Messages :
          LET r == BeginTurn(ctx, m, served + 1, settings.default_model)
          IN  ctx' = r.ctx /\ tasks' = [tasks EXCEPT ![t] = r.frame]
    /\ served' = served + 1
    /\ UNCHANGED <<call, ex, settings, frame, lp, down, search, svc>>

TaskExtractAttempt(t) ==
    /\ tasks[t].pc = "extract"
    /\ tasks[t].ex.pc = "call"
    /\ \E net \in Nets(PairExtractBodies, {"ok"}) :
          tasks' = [tasks EXCEPT ![t] = ExtractAttemptStep(@, net)]
    /\ UNCHANGED <<call, ex, settings, ctx, frame, served, lp, down, search, svc>>

TaskExtractReturn(t) ==
    /\ tasks[t].pc = "extract"
    /\ tasks[t].ex.pc = "closing"
    /\ tasks' = [tasks EXCEPT ![t] = ExtractReturnStep(@)]
    /\ UNCHANGED <<call, ex, settings, ctx, frame, served, lp, down, search, svc>>

TaskDispatch(t) ==
    /\ tasks[t].pc = "dispatch"
    /\ \E prov \in ProviderOutcomes :
          tasks' = [tasks EXCEPT ![t] =
                       DispatchStep(@, ctx, prov, settings.default_model)]
    /\ UNCHANGED <<call, ex, settings, ctx, frame, served, lp, down, search, svc>>

TaskSynthAttempt(t) ==
    /\ tasks[t].pc = "synth"
    /\ \E net \in Nets(PairSynthBodies, {"ok"}) :
          LET r == SynthAttemptStep(tasks[t], ctx, net, FALSE)
          IN  ctx' = r.ctx /\ tasks' = [tasks EXCEPT ![t] = r.frame]
    /\ UNCHANGED <<call, ex, settings, frame, served, lp, down, search, svc>>

Start == \E t \in Tasks : TaskStart(t)
PairExtractAttempt == \E t \in Tasks : TaskExtractAttempt(t)
PairExtractReturn == \E t \in Tasks : TaskExtractReturn(t)
PairDispatch == \E t \in Tasks : TaskDispatch(t)
PairSynthAttempt == \E t \in Tasks : TaskSynthAttempt(t)

NextPair ==
    \/ Start
    \/ PairExtractAttempt
    \/ PairExtractReturn
    \/ PairDispatch
    \/ PairSynthAttempt

SpecPair == InitPair /\ [][NextPair]_vars

ErrorTypes == {"HTTPStatusError", "ReadTimeout", "ConnectError", "TypeError",
               "ValueError"}
ApologyTexts == { Apology(t) : t \in ErrorTypes }
SuccessMessages == {"Flight options retrieved successfully",
                    "Restaurant options retrieved successfully",
                    "Transport options retrieved successfully"}

\* the synthesis call of the finished turn failed: every attempt failed, or
\* the body it returned has no usable first choice
SynthesisFailed(f) ==
    \/ f.gw.pc = "raised"
    \/ f.gw.pc = "returned" /\ f.gw.response.shape # "full"

Dispatched(f) == f.pc \in {"synth", "done"}
IntentOf(f) == Get(f.entities, "intent", "general")

\* C1: every process_message invocation ends by returning a result with a
\* reply text, a link list and the context, whichever stage failed; nothing
\* is raised to the caller.
C1_EveryTurnReturnsResult ==
    frame.pc = "done" =>
        /\ frame.outcome = "returned"
        /\ frame.text # NoText
        /\ frame.links \in Seq({l \in {frame.links[i] : i \in 1..Len(frame.links)} :
                                  DOMAIN l = {"url", "text", "type"}})
        /\ frame.context = "ctx"
        /\ ("synthesis" \in frame.faults
                => frame.text \in ApologyTexts /\ frame.links = <<>>)

C1_Witness ==
    /\ frame.pc = "done"
    /\ {"extraction", "synthesis"} \subseteq frame.faults
    /\ frame.outcome = "returned"

\* C2: when synthesis fails the turn returns an apology with no links, and
\* conversation_history is the history found at entry plus this call's user
\* turn: the user turn is kept and no assistant turn follows it.
C2_SynthesisFailureKeepsUserTurn ==
    (frame.pc = "done" /\ SynthesisFailed(frame)) =>
        /\ frame.text \in ApologyTexts
        /\ frame.links = <<>>
        /\ ctx.conversation_history = Append(frame.entry, UserTurn(frame.message))

C2_Witness ==
    /\ frame.pc = "done"
    /\ frame.gw.pc = "raised"
    /\ Len(frame.entry) = 2
    /\ ctx.conversation_history[Len(ctx.conversation_history)] = UserTurn(frame.message)

HasObject(content) ==
    \E i, j \in 1..Len(content) : i < j /\ content[i] = "{" /\ content[j] = "}"
FirstToLast(content) ==
    LET opens == {i \in 1..Len(content) : content[i] = "{"}
        closes == {j \in 1..Len(content) : content[j] = "}"}
        first == CHOOSE i \in opens : \A k \in opens : i <= k
        last == CHOOSE j \in closes : \A k \in closes : j >= k
    IN  SubSeq(content, first, last)

\* C4: extract_entities yields exactly {intent: general} when every model
\* attempt failed, when the reply has no usable content, when the content
\* holds no "{" followed later by "}", and when the text from the first "{"
\* to the last "}" does not parse; the call always reaches its return.
C4_ExtractionDegradesToGeneral ==
    ex.pc \in {"closing", "returned"} =>
        LET g == ex.gw
            c == g.response.content
        IN  (\/ g.pc = "raised"
             \/ g.response.shape # "full"
             \/ ~HasObject(c)
             \/ ~JsonLoads(FirstToLast(c), g.response.members).ok)
            => ex.entities = GeneralOnly

C4_Witness ==
    /\ ex.pc = "returned"
    /\ ex.gw.pc = "returned"
    /\ ex.gw.response.shape = "full"
    /\ HasObject(ex.gw.response.content)
    /\ ~JsonLoads(FirstToLast(ex.gw.response.content), ex.gw.response.members).ok
    /\ ex.entities = GeneralOnly

\* C5: when every attempt of a generate_response call has failed, the error
\* raised is the error of the first attempt, the one against the primary
\* model.
C5_FirstErrorSurfaces ==
    (call.pc \in {"returned", "raised"}
        /\ \A i \in 1..Len(call.log) : ~call.log[i].ok) =>
        /\ call.pc = "raised"
        /\ call.log[1].model = call.model
        /\ call.raised = call.log[1].err
        /\ call.raised.attempt = 1

C5_Witness ==
    /\ call.pc = "raised"
    /\ Len(call.log) = 3
    /\ call.raised.type = "ReadTimeout"
    /\ call.log[3].err.type = "HTTPStatusError"

\* C6: once the primary attempt and the first fallback attempt have failed,
\* the second fallback is attempted, and when it succeeds the call returns
\* its body and raises nothing.
C6_SecondFallbackAnswers ==
    (Len(call.log) >= 2 /\ call.model # FallbackModel
        /\ ~call.log[1].ok /\ ~call.log[2].ok) =>
        \/ call.pc = "final" /\ Len(call.log) = 2
        \/ /\ Len(call.log) = 3
           /\ call.log[3].model = FinalModel
           /\ call.log[3].ok =>
                 /\ call.pc = "returned"
                 /\ call.response = call.log[3].body
                 /\ call.raised = NoErr

C6_Witness ==
    /\ call.pc = "returned"
    /\ Len(call.log) = 3
    /\ call.log[1].err.type = "ReadTimeout"
    /\ call.log[2].err.type = "ReadTimeout"
    /\ call.log[2].model = FallbackModel
    /\ call.response = FullBody(<<"w">>, EmptyMap)

\* C7: the model identities attempted by one generate_response call are
\* pairwise different.
C7_NoModelAttemptedTwice ==
    \A i, j \in 1..Len(call.log) :
        i # j => call.log[i].model # call.log[j].model

\* C8: an entities map without intent, or with an intent outside the seven
\* enumerated ones, is dispatched like intent general: same envelope, no
\* data, no provider search.
C8_UnknownIntentIsGeneral ==
    (Dispatched(frame)
        /\ ("intent" \notin DOMAIN frame.entities
            \/ frame.entities["intent"] \notin KnownIntents)) =>
        /\ frame.envelope = ProcessTravelIntent("general", frame.entities, "ok").env
        /\ ~DataPresent(frame.envelope)
        /\ frame.calls = <<>>

C8_Witness ==
    /\ frame.pc = "synth"
    /\ "intent" \in DOMAIN frame.entities
    /\ frame.entities["intent"] = "Flight"
    /\ {"origin", "destination"} \subseteq DOMAIN frame.entities
    /\ frame.calls = <<>>

\* C9: a flight or transport request without origin or without destination,
\* and a restaurant request without location, gets a failure envelope of its
\* domain (no data, a message) and no provider search is made.
C9_MissingSlotMakesNoSearch ==
    LET e == frame.entities
        missing ==
            \/ IntentOf(frame) \in {"flight", "transport"}
               /\ ("origin" \notin DOMAIN e \/ "destination" \notin DOMAIN e)
            \/ IntentOf(frame) = "restaurant" /\ "location" \notin DOMAIN e
    IN  (Dispatched(frame) /\ missing) =>
            /\ frame.envelope.type = IntentOf(frame)
            /\ "data" \in DOMAIN frame.envelope
            /\ frame.envelope.data = None
            /\ HasMessage(frame.envelope)
            /\ frame.envelope.message \notin SuccessMessages \cup {""}
            /\ frame.calls = <<>>
            /\ frame.prov = None

C9_Witness ==
    /\ frame.pc = "synth"
    /\ IntentOf(frame) = "transport"
    /\ "origin" \in DOMAIN frame.entities
    /\ "destination" \notin DOMAIN frame.entities
    /\ frame.calls = <<>>

\* C10: every envelope dispatch returns carries a message; with data the
\* message is a success note, without data it is an explanation.
C10_EnvelopeAlwaysHasMessage ==
    Dispatched(frame) =>
        /\ HasMessage(frame.envelope)
        /\ DataPresent(frame.envelope) =>
              frame.envelope.message \in SuccessMessages
        /\ ~DataPresent(frame.envelope) =>
              frame.envelope.message \notin SuccessMessages \cup {""}

IsPrefix(s, t) == Len(s) <= Len(t) /\ SubSeq(t, 1, Len(s)) = s

\* C11: the user turn is in conversation_history from the moment extraction
\* starts, and while extraction, dispatch or the synthesis call is
\* outstanding nothing follows it; an assistant turn is there only once the
\* synthesis call has succeeded.
C11_AppendOrder ==
    /\ frame.pc \in {"extract", "dispatch", "synth"} =>
          ctx.conversation_history = Append(frame.entry, UserTurn(frame.message))
    /\ frame.pc = "done" =>
          \/ /\ ~SynthesisFailed(frame)
             /\ ctx.conversation_history =
                   frame.entry \o <<UserTurn(frame.message), AssistantTurn(frame.text)>>
          \/ /\ SynthesisFailed(frame)
             /\ ctx.conversation_history = Append(frame.entry, UserTurn(frame.message))

C11_Witness ==
    /\ frame.pc = "synth"
    /\ frame.gw.pc = "final"
    /\ Len(frame.entry) = 2
    /\ frame.entry[2].role = "assistant"
    /\ ctx.conversation_history[3] = UserTurn(frame.message)

\* C12: every step of the pipeline leaves location and preferences as they
\* are and changes conversation_history only by appending: the history before
\* the step is a prefix of the history after it.
C12_ContextFrame ==
    [][ /\ ctx'.location = ctx.location
        /\ ctx'.preferences = ctx.preferences
        /\ DOMAIN ctx' = DOMAIN ctx
        /\ IsPrefix(ctx.conversation_history, ctx'.conversation_history) ]_vars

C12_Witness ==
    /\ served = 2
    /\ frame.pc = "done"
    /\ SynthesisFailed(frame)
    /\ ctx.location = "Lagos"
    /\ Len(ctx.conversation_history) = 3

\* a complete marker <Links to PURPOSE>: the prefix, at least one token that
\* is not ">", then ">"
HasCompleteMarker(text) ==
    \E i, j \in 1..Len(text) :
        /\ text[i] = LinksTo /\ text[j] = Close /\ j > i + 1
        /\ \A k \in (i + 1)..(j - 1) : text[k] # Close

\* C13: an attraction reply of a successful synthesis whose model text holds
\* no complete <Links to ...> marker is that text followed by the default
\* marker, once; so every such reply holds a complete marker.
C13_AttractionReplyHasMarker ==
    (frame.pc = "done" /\ ~SynthesisFailed(frame)
        /\ Get(frame.entities, "intent", "") = "attraction") =>
        LET content == frame.gw.response.content
        IN  /\ ~HasCompleteMarker(content) => frame.text = content \o DefaultMarker
            /\ HasCompleteMarker(frame.text)

AllStages == <<"extraction", "dispatch", "synthesis", "links">>

\* the stages are entered in order, each at most once and only after the
\* stage before it has ended
StagesInOrder ==
    /\ IsPrefix(frame.stages, AllStages)
    /\ frame.pc = "idle" => frame.stages = <<>>
    /\ frame.pc \in {"extract", "dispatch"} => frame.stages = <<"extraction">>
    /\ frame.pc = "dispatch" => frame.ex = IdleEx
    /\ frame.pc = "synth" => frame.stages = SubSeq(AllStages, 1, 3) /\ frame.ex = IdleEx

\* C20 as claimed: the stages run in order, each at most once, and a stage
\* that failed is the last stage of its turn.
C20_FailureEndsTurn ==
    /\ StagesInOrder
    /\ "extraction" \in frame.faults /\ frame.pc # "extract" =>
          frame.stages = <<"extraction">>
    /\ "dispatch" \in frame.faults => "synthesis" \notin
          {frame.stages[i] : i \in 1..Len(frame.stages)}
    /\ frame.pc = "done" /\ "synthesis" \in frame.faults =>
          frame.stages = SubSeq(AllStages, 1, 3)

\* C20 amended: the stages run in order, each at most once and after the
\* stage before it; only a failure of the synthesis stage ends the turn
\* early, link extraction then being skipped; a failure inside extraction or
\* dispatch is absorbed by that stage and the later stages still run.
C20_StagesSequential ==
    /\ StagesInOrder
    /\ frame.pc = "done" =>
          /\ SynthesisFailed(frame) <=> "synthesis" \in frame.faults
          /\ SynthesisFailed(frame) => frame.stages = SubSeq(AllStages, 1, 3)
          /\ ~SynthesisFailed(frame) => frame.stages = AllStages
    /\ frame.pc \in {"synth", "done"} /\ frame.faults \cap {"extraction", "dispatch"} # {} =>
          IsPrefix(SubSeq(AllStages, 1, 3), frame.stages)

C20_Witness ==
    /\ frame.pc = "done"
    /\ frame.faults = {"extraction"}
    /\ frame.stages = AllStages

\* C19: the attempts of one generate_response call are made one after
\* another in chain order (primary, first fallback, final); every attempt
\* but the last one made has failed, and a successful attempt ends the call
\* with its body, so a successful primary attempt is the only attempt.
C19_AttemptsSequential ==
    LET n == Len(call.log)
    IN  /\ n <= 3
        /\ \A i \in 1..n : call.log[i].err.attempt \in {0, i}
        /\ \A i \in 1..(n - 1) : ~call.log[i].ok
        /\ n >= 1 => call.log[1].model = call.model
        /\ n >= 2 => call.log[2].model =
              (IF call.model # FallbackModel THEN FallbackModel ELSE FinalModel)
        /\ n = 3 => call.log[3].model = FinalModel
        /\ GwRunning(call) => \A i \in 1..n : ~call.log[i].ok
        /\ (n >= 1 /\ call.log[n].ok) =>
              /\ call.pc = "returned"
              /\ call.response = call.log[n].body
        /\ call.pc = "returned" => n >= 1 /\ call.log[n].ok

C19_Witness ==
    /\ call.pc = "returned"
    /\ Len(call.log) = 2
    /\ call.log[1].err.type = "ConnectError"
    /\ call.log[2].model = FallbackModel
    /\ call.log[2].ok

\* C18: the entities extract_entities returns hold an intent, and it is one
\* of the seven enumerated intents.
C18_ReturnedIntentKnown ==
    ex.pc \in {"closing", "returned"} =>
        /\ "intent" \in DOMAIN ex.entities
        /\ ex.entities.intent \in KnownIntents

\* the pattern a link comes from: 1 generic marker, 2 specific marker,
\* 3 heuristic place scan
PatternRank(l) ==
    IF l.type = "specific" THEN 2
    ELSE IF l.type = "general" /\ Head(l.text) = "Find " THEN 1
    ELSE 3

\* C14: extract_links returns the links of the generic markers in text
\* order, then those of the specific markers in text order, then those of
\* the heuristic place scan, all of them kept.
C14_PatternOrder ==
    lp.pc # "idle" =>
        /\ lp.links = GenericLinks(lp.text, 1) \o SpecificLinks(lp.text, 1)
                        \o HeuristicLinks(lp.text)
        /\ \A i, j \in 1..Len(lp.links) :
              i < j => PatternRank(lp.links[i]) <= PatternRank(lp.links[j])

C14_Witness ==
    /\ lp.pc = "extracted"
    /\ Len(lp.links) = 3
    /\ PatternRank(lp.links[1]) = 1
    /\ PatternRank(lp.links[2]) = 2
    /\ PatternRank(lp.links[3]) = 3

\* tokens that hold the character "<"
HoldsAngle(tok) == tok \in {LinkOpen, LinksTo}

\* text[i..k] is a marker <link:URL|TEXT> with its "|" at j, URL free of
\* "|", TEXT free of ">", neither holding "<"
MarkerAt(text, i, j, k) ==
    /\ i < j /\ j < k
    /\ text[i] = LinkOpen /\ text[j] = Bar /\ text[k] = Close
    /\ \A h \in (i + 1)..(j - 1) : text[h] # Bar /\ ~HoldsAngle(text[h])
    /\ \A h \in (j + 1)..(k - 1) : text[h] # Close /\ ~HoldsAngle(text[h])

HasMarker(text) == \E i, j, k \in 1..Len(text) : MarkerAt(text, i, j, k)

\* C15: for every marker <link:URL|TEXT> of the text, extract_links emits
\* {url: URL, text: TEXT, type: specific}, and format_response_with_links
\* returns the text with the marker replaced by TEXT and no marker left.
C15_SpecificRoundTrip ==
    \A i, j, k \in 1..Len(lp.text) :
        MarkerAt(lp.text, i, j, k) =>
            LET URL == SubSeq(lp.text, i + 1, j - 1)
                TEXT == SubSeq(lp.text, j + 1, k - 1)
            IN  /\ lp.pc # "idle" =>
                      \E n \in 1..Len(lp.links) :
                          lp.links[n] = [url |-> URL, text |-> TEXT, type |-> "specific"]
                /\ lp.pc \in {"formatted", "reformatted"} =>
                      /\ lp.out = FormatResponseWithLinks(SubSeq(lp.text, 1, i - 1))
                                    \o TEXT
                                    \o FormatResponseWithLinks(
                                           SubSeq(lp.text, k + 1, Len(lp.text)))
                      /\ ~HasMarker(lp.out)

\* C16: format_response_with_links applied to its own result returns that
\* result unchanged.
C16_FormatIdempotent ==
    lp.pc = "reformatted" => lp.again = lp.out

\* C17: once shutdown is complete every client the service created is
\* closed.
C17_ShutdownClosesEveryClient ==
    down.pc = "complete" => down.open = {}

\* C23: an extract_entities call works on a client of its own, open from the
\* entry of the call, and has closed it exactly once when it returns, however
\* the model call ended.
C23_ClientClosedOnce ==
    /\ ex.pc \in {"call", "closing"} => ex.client = "open" /\ ex.closes = 0
    /\ ex.pc = "returned" => ex.client = "closed" /\ ex.closes = 1
    /\ ex.pc = "idle" => ex.client = None

C23_Witness ==
    /\ ex.pc = "returned"
    /\ ex.gw.pc = "raised"
    /\ Len(ex.gw.log) = 3
    /\ ex.closes = 1

\* C26: the prompt of a turn's extraction call is the system instruction,
\* the last 4 entries of the history as the turn found it, and the turn's
\* user message, once.
C26_ExtractionPrompt ==
    frame.pc = "extract" =>
        frame.ex.prompt =
            <<SystemPrompt>> \o LastTurns(frame.entry) \o <<UserTurn(frame.message)>>

\* the text is prose, one JSON object, prose: one "{", later one "}", at
\* most a member list between them and nothing but prose around them
OneObjectInProse(content) ==
    \E i, j \in 1..Len(content) :
        /\ i < j /\ content[i] = "{" /\ content[j] = "}"
        /\ j <= i + 2
        /\ \A k \in (i + 1)..(j - 1) : content[k] = "m"
        /\ \A k \in (1..(i - 1)) \cup ((j + 1)..Len(content)) : content[k] = "x"

\* C25: when the reply holds one JSON object surrounded by prose,
\* extract_entities returns that object, parsed from the first "{" to the
\* last "}", with the fields of the object and no other.
C25_ObjectReturnedAsIs ==
    (ex.pc \in {"closing", "returned"} /\ ex.gw.pc = "returned"
        /\ ex.gw.response.shape = "full"
        /\ OneObjectInProse(ex.gw.response.content)) =>
        LET c == ex.gw.response.content
            object == IF HoldsMembers(c) THEN ex.gw.response.members ELSE EmptyMap
        IN  /\ JsonLoads(FirstToLast(c), ex.gw.response.members) =
                  [ok |-> TRUE, value |-> object]
            /\ DOMAIN ex.entities = DOMAIN object
            /\ \A k \in DOMAIN object : ex.entities[k] = object[k]

C25_Witness ==
    /\ ex.pc = "returned"
    /\ ex.gw.response.content = <<"x", "{", "m", "}", "x">>
    /\ ex.entities = [destination |-> "Paris"]

\* the rules of the claim, in its order of precedence, and their URLs
UrlRules ==
    << {"flight"}, {"hotel"}, {"restaurant", "dining", "reservation"},
       {"attraction", "place"}, {"transport"} >>
RuleUrls ==
    << "https://www.skyscanner.com/", "https://www.booking.com/",
       "https://www.opentable.com/", "https://www.tripadvisor.com/",
       "https://www.rome2rio.com/" >>
RuleMatches(r, purpose) == \E kw \in UrlRules[r] : Has(purpose, kw)
ExpectedUrl(purpose) ==
    IF \E r \in 1..Len(UrlRules) : RuleMatches(r, purpose)
    THEN RuleUrls[CHOOSE r \in 1..Len(UrlRules) :
                     /\ RuleMatches(r, purpose)
                     /\ \A q \in 1..(r - 1) : ~RuleMatches(q, purpose)]
    ELSE "https://www.google.com/travel"

\* C24: the URL of every generic link is the URL of the first rule, in the
\* order flight, hotel, restaurant/dining/reservation, attraction/place,
\* transport, that its purpose matches, and the travel-search URL when it
\* matches none.
C24_FirstRuleWins ==
    lp.pc # "idle" =>
        \A n \in 1..Len(lp.links) :
            PatternRank(lp.links[n]) = 1 =>
                lp.links[n].url = <<ExpectedUrl(Tail(lp.links[n].text))>>

C24_Witness ==
    /\ lp.pc = "extracted"
    /\ lp.text = <<LinksTo, "HOTEL", "flight", Close>>
    /\ lp.links = <<[url |-> <<"https://www.skyscanner.com/">>,
                     text |-> <<"Find ", "HOTEL", "flight">>, type |-> "general"]>>

\* C29: when the caller names a model, the first attempt is a request sent
\* for that model, the later attempts are requests too, and no attempt fails
\* for the naming alone.
C29_NamedModelIsAttempted ==
    call.kw # None =>
        /\ Len(call.log) >= 1 => call.log[1].model = call.kw
        /\ \A i \in 1..Len(call.log) :
              call.log[i].sent /\ call.log[i].err.type # "TypeError"

\* the members of TransportMode the names stand for, in the order named
RECURSIVE KeptModes(_)
KeptModes(names) ==
    IF names = <<>> THEN <<>>
    ELSE (IF Upper(Head(names)) \in DOMAIN TransportMode
          THEN <<TransportMode[Upper(Head(names))]>> ELSE <<>>)
         \o KeptModes(Tail(names))

DispatchedWithRoute(intents) ==
    /\ search.pc = "done"
    /\ search.via = "dispatch"
    /\ search.intent \in intents
    /\ ~Falsy(search.entities["origin"])

\* C21: the departure_date of a flight or transport request with origin and
\* destination: a date-only string gives that calendar day, a string that is
\* no date is tried as a datetime and gives its day, and a string that is
\* neither gives the default (tomorrow / tomorrow at 12:00); the provider is
\* called exactly once and the handler does not fail
C21_DepartureDateParsed ==
    (DispatchedWithRoute({"flight", "transport"})
     /\ "departure_date" \in DOMAIN search.entities) =>
        /\ Len(search.calls) = 1
        /\ Len(search.requests) = 1
        /\ (search.failed => search.prov = "fail")
        /\ LET v == search.entities["departure_date"]
               dep == search.requests[1].departure_date
           IN  /\ v = DateOnly => dep.day = DateOnly
               /\ v = DateWithTime => dep.day = DateOnly
               /\ v \in {"", "next friday"} =>
                     dep = IF search.intent = "flight" THEN ADate(Tomorrow)
                           ELSE ADatetime(Tomorrow, Noon)

\* C22: a transport dispatch that names modes drops the names that are no
\* member of TransportMode, keeps the others in the order named, and calls
\* the provider once with them; an unknown name is never a failure
C22_UnknownModesDropped ==
    (DispatchedWithRoute({"transport"})
     /\ "transport_modes" \in DOMAIN search.entities) =>
        /\ search.calls = <<"rome2rio">>
        /\ Len(search.requests) = 1
        /\ search.requests[1].modes =
              JsonList(KeptModes(search.entities["transport_modes"].items))
        /\ (search.failed => search.prov = "fail")

C22_Witness ==
    /\ DispatchedWithRoute({"transport"})
    /\ "transport_modes" \in DOMAIN search.entities
    /\ search.entities["transport_modes"].items = <<"hovercraft", "Ferry">>
    /\ search.prov = "ok"
    /\ search.requests[1].modes = JsonList(<<"ferry">>)
    /\ search.env.type = "transport"

\* C28: a direct transport search that names no modes calls the provider
\* exactly once with no mode filter and returns the provider's result
C28_NoModesSearchesAll ==
    (search.pc = "done" /\ search.via = "direct"
     /\ search.entities["transport_modes"].null) =>
        /\ search.calls = <<"rome2rio">>
        /\ Len(search.requests) = 1
        /\ search.requests[1].modes = JsonNull
        /\ (search.prov = "ok" =>
               search.status = 200 /\ search.data = "TransportSearchResponse")

\* C30: ConversationService.process_message returns the content the model
\* generated whenever the model call succeeded with a full body, and appends
\* it as the assistant turn; the 'trouble connecting' text is the reply only
\* when every model attempt failed
C30_ModelContentIsReply ==
    svc.pc = "done" =>
        /\ (svc.gw.pc = "returned" /\ svc.gw.response.shape = "full") =>
              /\ svc.text = svc.gw.response.content
              /\ svc.history[Len(svc.history)] = AssistantTurn(svc.gw.response.content)
        /\ svc.text = TroubleConnecting => svc.gw.pc = "raised"

\* both requests have returned and no stage of either failed
BothReturnedClean ==
    \A t \in Tasks : /\ tasks[t].pc = "done"
                     /\ tasks[t].outcome = "returned"
                     /\ tasks[t].faults = {}

\* C27: when two turns of one user run concurrently on the shared context
\* and no stage fails, every assistant entry of conversation_history comes
\* right after the user entry it answers, and the history a turn's synthesis
\* read ends with that turn's own user message
C27_TurnsStayPaired ==
    BothReturnedClean =>
        LET h == ctx.conversation_history
        IN  /\ \A i \in 1..Len(h) :
                  h[i].role = "assistant" => (i > 1 /\ h[i - 1].role = "user")
            /\ \A t \in Tasks :
                  \E i \in 1..(Len(h) - 1) :
                     /\ h[i] = UserTurn(tasks[t].message)
                     /\ h[i + 1] = AssistantTurn(tasks[t].text)
            /\ \A t \in Tasks :
                  /\ tasks[t].history # <<>>
                  /\ tasks[t].history[Len(tasks[t].history)] = UserTurn(tasks[t].message)










====
